---- MODULE Spec2Model ----
(***************************************************************************)
(* State-machine model of the audio core of underground_stories:           *)
(*   - AudioPipeline (core/packages/core/audio/audio_pipeline.py)          *)
(*   - IntelligentTextChunker (core/packages/core/audio/text_chunker.py)   *)
(* Texts are sequences of one-character strings.  Provider character       *)
(* limits are scaled down (4096 / 4000 / 2500 become GoogleMaxChars + 1 /  *)
(* GoogleMaxChars / GoogleMaxChars - 1) so that every text up to           *)
(* MaxTextLen can be enumerated; their order is the program's.             *)
(***************************************************************************)
EXTENDS Integers, Sequences, FiniteSets, TLC

(***************************************************************************)
(* Bounds of the model                                                     *)
(***************************************************************************)
\* longest text handed to generate_audio
MaxTextLen == 4
\* scaled max_characters of the Google provider (4000 in the program)
GoogleMaxChars == 2

(***************************************************************************)
(* Strings                                                                 *)
(***************************************************************************)
\* Python's None, for a field that otherwise holds a string, a record
\* (an object) or a number of cents
None == "None"
Null == [none |-> TRUE]
NoCost == -1

\* str.isspace() for the characters of the model
IsSpace(c) == c \in {" ", "\n", "\t"}

\* the texts of length 0..n over the alphabet A
RECURSIVE SeqsUpTo(_, _)
SeqsUpTo(A, n) ==
    IF n = 0 THEN {<<>>}
    ELSE LET S == SeqsUpTo(A, n - 1)
         IN S \cup {Append(s, c) : s \in {t \in S : Len(t) = n - 1}, c \in A}

\* s[i:] and s[:i] of Python, i counted from 0
From(s, i) == SubSeq(s, i + 1, Len(s))
UpTo(s, i) == SubSeq(s, 1, i)

RECURSIVE lstrip(_)
lstrip(s) == IF s # <<>> /\ IsSpace(Head(s)) THEN lstrip(Tail(s)) ELSE s

RECURSIVE rstrip(_)
rstrip(s) ==
    IF s # <<>> /\ IsSpace(s[Len(s)]) THEN rstrip(SubSeq(s, 1, Len(s) - 1)) ELSE s

\* str.strip()
strip(s) == rstrip(lstrip(s))

StartsWith(s, sep) == Len(s) >= Len(sep) /\ SubSeq(s, 1, Len(sep)) = sep

\* str.split(sep) for a non-empty separator: cut at the non-overlapping
\* occurrences of sep, left to right; empty pieces are kept
RECURSIVE SplitAcc(_, _, _)
SplitAcc(s, sep, piece) ==
    IF s = <<>> THEN <<piece>>
    ELSE IF StartsWith(s, sep)
         THEN <<piece>> \o SplitAcc(From(s, Len(sep)), sep, <<>>)
         ELSE SplitAcc(Tail(s), sep, Append(piece, Head(s)))

split(s, sep) == SplitAcc(s, sep, <<>>)

\* "".join(list)
RECURSIVE join(_)
join(list) == IF list = <<>> THEN <<>> ELSE Head(list) \o join(Tail(list))


(***************************************************************************)
(* AudioPipeline._split_text_for_provider                                  *)
(***************************************************************************)
\* lines 203-206: flush the running chunk when adding `piece` would exceed
\* the limit; st = [chunks, current_chunk]
FlushIfOver(st, piece, max_characters) ==
    IF Len(st.current_chunk) + Len(piece) > max_characters
    THEN IF st.current_chunk # <<>>
         THEN [chunks |-> Append(st.chunks, strip(st.current_chunk)),
               current_chunk |-> <<>>]
         ELSE st
    ELSE st

\* lines 202-207: the loop over the sentences of an over-long paragraph
RECURSIVE SentenceLoop(_, _, _)
SentenceLoop(sentences, st, max_characters) ==
    IF sentences = <<>> THEN st
    ELSE LET sentence == Head(sentences)
             flushed == FlushIfOver(st, sentence, max_characters)
         IN SentenceLoop(Tail(sentences),
                [flushed EXCEPT !.current_chunk = @ \o sentence \o <<".", " ">>],
                max_characters)

\* lines 192-211: the loop over the paragraphs
RECURSIVE ParagraphLoop(_, _, _)
ParagraphLoop(paragraphs, st, max_characters) ==
    IF paragraphs = <<>> THEN st
    ELSE LET paragraph == Head(paragraphs)
             next ==
               IF Len(st.current_chunk) + Len(paragraph) > max_characters
               THEN LET flushed == FlushIfOver(st, paragraph, max_characters)
                    IN IF Len(paragraph) > max_characters
                       THEN SentenceLoop(split(paragraph, <<".", " ">>), flushed,
                                         max_characters)
                       ELSE [flushed EXCEPT !.current_chunk = paragraph]
               ELSE [st EXCEPT !.current_chunk =
                        IF @ # <<>> THEN @ \o <<"\n", "\n">> \o paragraph
                        ELSE paragraph]
         IN ParagraphLoop(Tail(paragraphs), next, max_characters)

split_text_for_provider(text, max_characters) ==
    IF Len(text) <= max_characters THEN <<text>>
    ELSE LET st == ParagraphLoop(split(text, <<"\n", "\n">>),
                                 [chunks |-> <<>>, current_chunk |-> <<>>],
                                 max_characters)
         IN IF st.current_chunk # <<>>
            THEN Append(st.chunks, strip(st.current_chunk))
            ELSE st.chunks

(***************************************************************************)
(* Types of core/audio/types.py                                            *)
(***************************************************************************)
TTSProvider == {"google", "openai", "elevenlabs"}

\* ProviderLimits.max_characters of each provider, scaled (see the head of
\* the module): OpenAI 4096 > Google 4000 > ElevenLabs 2500
get_limits(p) ==
    CASE p = "openai" -> GoogleMaxChars + 1
      [] p = "google" -> GoogleMaxChars
      [] OTHER -> GoogleMaxChars - 1

Max(a, b) == IF a >= b THEN a ELSE b

\* estimate_cost as synthesize calls it (OpenAI: tts-1; Google: a voice of
\* the Neural2 tier): cents for the text, at least 1
\* estimate_cost, last two statements: cents for character_count
\* characters at cost_per_million cents per million, truncated, at least 1.
\* The program computes (character_count / 1_000_000) * cost_per_million in
\* double precision; up to 18,000 characters, which covers every length of
\* this model, int() of it is the exact quotient.
CostCentsNoMinimum(cost_per_million, character_count) ==
    (character_count * cost_per_million) \div 1000000

CostCents(cost_per_million, character_count) ==
    Max(1, (character_count * cost_per_million) \div 1000000)

estimate_cost(p, text) ==
    LET cost_per_million == CASE p = "openai" -> 1500
                              [] p = "google" -> 400
                              [] OTHER -> 0
    IN CostCents(cost_per_million, Len(text))

\* TTSResult(success=False, error_message=...); the message is kept as its
\* kind and, for a chunk failure, the 1-based chunk number it names
Failure(kind, n) ==
    [success |-> FALSE, audio_file |-> Null,
     error_message |-> [kind |-> kind, chunk |-> n, by |-> None],
     cost_cents |-> NoCost]

\* the TTSResult a provider returns from a failed synthesize:
\* error_message "<provider> TTS error: ..."
ProviderFailure(p) ==
    [success |-> FALSE, audio_file |-> Null,
     error_message |-> [kind |-> "provider_error", chunk |-> 0, by |-> p],
     cost_cents |-> NoCost]

\* the TTSResult a provider returns from a successful synthesize(request)
ProviderSuccess(p, request) ==
    [success |-> TRUE,
     audio_file |-> [file_id |-> p, file_path |-> request.output_path,
                     text_input |-> request.text],
     error_message |-> Null,
     cost_cents |-> estimate_cost(p, request.text)]

\* what a provider's synthesize can do with a request
Outcomes == {"ok", "fail", "raise"}

(***************************************************************************)
(* AudioPipeline                                                           *)
(***************************************************************************)
VARIABLES
    providers,      \* AudioPipeline._providers: the registered provider keys
    voice_config,   \* the caller's VoiceConfig object, shared by reference
    job,            \* one generate_audio call per job id: its frame
    files           \* the paths at which an audio file has been written

pvars == <<providers, voice_config, job, files>>

\* AudioPipeline.__init__: _fallback_providers
fallback_providers == [google |-> "openai", openai |-> "google"]

\* get_available_voices(): "voice" stands for a voice of the provider's
\* catalog, "no_such_voice" for one that is in no catalog
get_available_voices(p) == {"voice"}

\* validate_config(config) of the provider registered under p
\* (openai_tts.py 141-160, google_tts.py 152-171); speed is in hundredths,
\* pitch in semitones, volume_gain_db in dB
validate_config(p, config) ==
    IF config.provider # p THEN FALSE
    ELSE IF config.voice_id \notin get_available_voices(p) THEN FALSE
    ELSE IF ~(25 <= config.speed /\ config.speed <= 400) THEN FALSE
    ELSE IF p = "google" /\ ~(-20 <= config.pitch /\ config.pitch <= 20) THEN FALSE
    ELSE IF p = "google" /\ ~(-96 <= config.volume_gain_db /\ config.volume_gain_db <= 16)
         THEN FALSE
    ELSE TRUE

\* VoiceConfig(provider, voice_id, ...) with the defaults of types.py 54-56
DefaultConfig(p) ==
    [provider |-> p, voice_id |-> "voice", speed |-> 100, pitch |-> 0,
     volume_gain_db |-> 0]

\* the VoiceConfig objects a caller may pass: the defaults, and the
\* defaults with one field changed
VoiceConfigs ==
    {DefaultConfig(p) : p \in TTSProvider}
    \cup {[DefaultConfig(p) EXCEPT !.voice_id = "no_such_voice"] : p \in {"google", "openai"}}
    \cup {[DefaultConfig(p) EXCEPT !.speed = 500] : p \in {"google", "openai"}}
    \cup {[DefaultConfig(p) EXCEPT !.pitch = 25] : p \in {"google", "openai"}}
    \cup {[DefaultConfig("google") EXCEPT !.volume_gain_db = 20]}

\* the caller-supplied destination of job j and its per-chunk paths
OutputPath(j) == [stem |-> j, chunk |-> 0]
ChunkPath(output_path, i) == [stem |-> output_path.stem, chunk |-> i + 1]

\* the texts a caller may pass
PipelineAlphabet == {"a", ".", " ", "\n"}
PipelineTexts == SeqsUpTo(PipelineAlphabet, MaxTextLen)

IdleJob ==
    [pc |-> "idle", text |-> <<>>, output_path |-> Null, provider |-> None,
     request |-> Null, target |-> None, chunks |-> <<>>, i |-> 0,
     audio_files |-> <<>>, total_cost |-> 0, combined |-> Null,
     result |-> Null, calls |-> <<>>, returns |-> <<>>, given_config |-> Null,
     caller_named |-> None]

\* a generate_audio call that has not started; caller_named keeps the
\* provider its caller named when the VoiceConfig object was built
NewJob(p) == [IdleJob EXCEPT !.caller_named = p]

PipelineInit ==
    /\ providers = {}
    /\ voice_config \in VoiceConfigs
    /\ job = [j \in {1} |-> NewJob(voice_config.provider)]
    /\ files = {}

\* two generate_audio calls that are given the same VoiceConfig object,
\* one after the other or overlapping at their await points
SharedJobs == {1, 2}
SharedConfigInit ==
    /\ providers = {}
    /\ voice_config \in {DefaultConfig(p) : p \in {"google", "openai"}}
    /\ job = [j \in SharedJobs |-> NewJob(voice_config.provider)]
    /\ files = {}

\* the texts of two calls that share a VoiceConfig: one that every provider
\* takes directly and one that every provider chunks into two sentences
SharedTexts == {<<"a">>, <<"a", ".", " ", "a">>}

\* the texts passed to generate_audio
JobTexts == IF Cardinality(DOMAIN job) = 1 THEN PipelineTexts ELSE SharedTexts

\* register_provider(provider_type, provider): done while the pipeline is
\* set up, before the first generate_audio call
register_provider(provider_type) ==
    /\ \A j \in DOMAIN job : job[j].pc = "idle"
    /\ providers' = providers \cup {provider_type}
    /\ UNCHANGED <<voice_config, job, files>>

\* mutant of providers_get: an unregistered key falls back to
\* self._default_provider
providers_get_default(key) ==
    IF key \in providers THEN key
    ELSE IF "google" \in providers THEN "google" ELSE None

\* self._providers.get(key), line 75: the provider registered under key
providers_get(key) == IF key \in providers THEN key ELSE None

\* `await target.synthesize(request)`: the request is in flight; cfg is the
\* provider field of request.voice_config at the moment of the call
Issue(jr, target, request, cfg, pc) ==
    [jr EXCEPT !.pc = pc, !.request = request, !.target = target,
               !.calls = Append(@, [op |-> "synthesize", target |-> target,
                                    text |-> request.text,
                                    output_path |-> request.output_path,
                                    config_provider |-> cfg])]

Return(jr, result) ==
    [jr EXCEPT !.pc = "returned", !.request = Null, !.target = None,
               !.result = result]

\* an exception leaves generate_audio
Raise(jr, what) ==
    [jr EXCEPT !.pc = "raised", !.request = Null, !.target = None,
               !.result = [exception |-> what]]

\* _combine_audio_files(audio_files, output_path): builds the AudioFile
\* record of the combined audio; it writes no file
combine_audio_files(jr) ==
    IF jr.audio_files # <<>>
    THEN Return([jr EXCEPT !.combined = [audio_files |-> jr.audio_files]],
                [success |-> TRUE,
                 audio_file |-> [file_id |-> <<"combined", jr.audio_files[1].file_id>>,
                                 file_path |-> jr.output_path,
                                 text_input |-> "combined_audio"],
                 error_message |-> Null,
                 cost_cents |-> jr.total_cost])
    ELSE Raise([jr EXCEPT !.combined = [audio_files |-> jr.audio_files]], "ValueError")

\* mutant of ChunkLoop: the chunks are taken from the last to the first
ChunkLoopReversed(jr, cfg) ==
    IF jr.i < Len(jr.chunks)
    THEN Issue(jr, jr.provider,
               [text |-> jr.chunks[Len(jr.chunks) - jr.i],
                output_path |-> ChunkPath(jr.output_path, jr.i)],
               cfg, "await_chunk")
    ELSE combine_audio_files(jr)

\* _generate_chunked_audio, lines 148-157 and 169: the head of the loop over
\* the chunks, up to the next await
ChunkLoop(jr, cfg) ==
    IF jr.i < Len(jr.chunks)
    THEN Issue(jr, jr.provider,
               [text |-> jr.chunks[jr.i + 1],
                output_path |-> ChunkPath(jr.output_path, jr.i)],
               cfg, "await_chunk")
    ELSE combine_audio_files(jr)

LogLimits(jr, p) == [jr EXCEPT !.calls = Append(@, [op |-> "get_limits", target |-> p])]

\* generate_audio(text, voice_config, output_path), lines 75-98, and
\* _generate_chunked_audio up to its first await
generate_audio(j) ==
    /\ job[j].pc = "idle"
    /\ \E text \in JobTexts :
       LET provider == providers_get(voice_config.provider)
           jr == [job[j] EXCEPT !.text = text, !.output_path = OutputPath(j),
                                !.given_config = voice_config]
       IN IF provider = None
          THEN job' = [job EXCEPT ![j] = Return(jr, Failure("not_available", 0))]
          ELSE \E limits_ok \in BOOLEAN :
                 LET j1 == LogLimits([jr EXCEPT !.provider = provider], provider)
                 IN IF ~limits_ok
                    THEN job' = [job EXCEPT ![j] = Raise(j1, "get_limits")]
                    ELSE IF Len(text) > get_limits(provider)
                    THEN LET j2 == LogLimits(j1, provider)
                             j3 == [j2 EXCEPT !.chunks =
                                      split_text_for_provider(text, get_limits(provider))]
                         IN job' = [job EXCEPT ![j] = ChunkLoop(j3, voice_config.provider)]
                    ELSE job' = [job EXCEPT ![j] =
                                   Issue(j1, provider,
                                         [text |-> text, output_path |-> jr.output_path],
                                         voice_config.provider, "await_primary")]
    /\ UNCHANGED <<providers, voice_config, files>>

\* the in-flight synthesize of the job ends with `outcome`
Answered(jr, outcome) == [jr EXCEPT !.returns = Append(@, outcome)]

\* mutant of FallbackFor: the retry looks the primary's own key up again
FallbackForSame(config_provider) ==
    IF config_provider \in DOMAIN fallback_providers
       /\ config_provider \in providers
    THEN config_provider
    ELSE None

\* the fallback provider to retry on after the primary failed (lines
\* 101-105), or None
FallbackFor(config_provider) ==
    IF config_provider \in DOMAIN fallback_providers
       /\ fallback_providers[config_provider] \in providers
    THEN fallback_providers[config_provider]
    ELSE None

\* the primary's synthesize comes back (line 98) and generate_audio runs on
\* to its return or to the fallback's synthesize (lines 101-124, 126-131)
PrimaryReturns(j, outcome) ==
    /\ job[j].pc = "await_primary"
    /\ LET jr == Answered(job[j], outcome)
           fallback_provider_type == FallbackFor(voice_config.provider)
       IN CASE outcome = "raise" ->
                 /\ job' = [job EXCEPT ![j] = Return(jr, Failure("generation_failed", 0))]
                 /\ UNCHANGED <<voice_config, files>>
            [] outcome = "ok" ->
                 /\ job' = [job EXCEPT ![j] = Return(jr, ProviderSuccess(jr.target, jr.request))]
                 /\ files' = files \cup {jr.request.output_path}
                 /\ UNCHANGED voice_config
            [] outcome = "fail" ->
                 IF fallback_provider_type # None
                 THEN \* lines 112-113: fallback_config IS voice_config
                      /\ voice_config' = [voice_config EXCEPT !.provider = fallback_provider_type]
                      /\ job' = [job EXCEPT ![j] =
                                   Issue(jr, fallback_provider_type,
                                         [text |-> jr.text, output_path |-> jr.output_path],
                                         fallback_provider_type, "await_fallback")]
                      /\ UNCHANGED files
                 ELSE /\ job' = [job EXCEPT ![j] = Return(jr, ProviderFailure(jr.target))]
                      /\ UNCHANGED <<voice_config, files>>
    /\ UNCHANGED providers

\* the fallback's synthesize comes back (line 122); its result is returned
FallbackReturns(j, outcome) ==
    /\ job[j].pc = "await_fallback"
    /\ LET jr == Answered(job[j], outcome)
       IN CASE outcome = "raise" ->
                 /\ job' = [job EXCEPT ![j] = Return(jr, Failure("generation_failed", 0))]
                 /\ UNCHANGED files
            [] outcome = "ok" ->
                 /\ job' = [job EXCEPT ![j] = Return(jr, ProviderSuccess(jr.target, jr.request))]
                 /\ files' = files \cup {jr.request.output_path}
            [] outcome = "fail" ->
                 /\ job' = [job EXCEPT ![j] = Return(jr, ProviderFailure(jr.target))]
                 /\ UNCHANGED files
    /\ UNCHANGED <<providers, voice_config>>

\* mutant of ChunkFailed: the message counts the chunks from 0
ChunkFailedZeroBased(jr) == Return(jr, Failure("chunk_failed", jr.i))

\* lines 159-163: a chunk failed; the job returns a failure naming it
ChunkFailed(jr) == Return(jr, Failure("chunk_failed", jr.i + 1))

\* a chunk's synthesize comes back (line 157) and the loop runs on (lines
\* 159-175)
ChunkReturns(j, outcome) ==
    /\ job[j].pc = "await_chunk"
    /\ LET jr == Answered(job[j], outcome)
           result == ProviderSuccess(jr.target, jr.request)
       IN CASE outcome = "raise" ->
                 /\ job' = [job EXCEPT ![j] = Raise(jr, "synthesize")]
                 /\ UNCHANGED files
            [] outcome = "fail" ->
                 /\ job' = [job EXCEPT ![j] = ChunkFailed(jr)]
                 /\ UNCHANGED files
            [] outcome = "ok" ->
                 /\ job' = [job EXCEPT ![j] =
                              ChunkLoop([jr EXCEPT !.audio_files = Append(@, result.audio_file),
                                                   !.total_cost = @ + (IF result.cost_cents = NoCost THEN 0
                                                                      ELSE result.cost_cents),
                                                   !.i = @ + 1],
                                        voice_config.provider)]
                 /\ files' = files \cup {jr.request.output_path}
    /\ UNCHANGED <<providers, voice_config>>

(***************************************************************************)
(* IntelligentTextChunker (text_chunker.py)                                *)
(***************************************************************************)
\* bounds of the chunker's inputs: all texts up to MaxChunkTextLen with
\* max_chars up to MaxMaxChars, and the texts of LongTexts with max_chars
\* up to LongMaxChars
MaxChunkTextLen == 4
MaxMaxChars == 3
LongMaxChars == 7

\* the character U+2014 (em dash) of lines 61, 67 and 137
EmDash == "~"

\* the character classes of the patterns: [.!?] and [A-Z]
IsPunct(c) == c \in {".", "!", "?"}
IsUpper(c) == c \in {"A", "B", "H", "M", "T", "N", "S"}

\* last index of the run of characters of the set class that follows
\* position q (q itself when the next character is not in the class)
RECURSIVE RunEnd(_, _, _)
RunEnd(w, q, class) ==
    IF q + 1 <= Len(w) /\ w[q + 1] \in class THEN RunEnd(w, q + 1, class) ELSE q

\* the characters \s matches
WhiteSpace == {" ", "\n", "\t"}

\* the positions of the newlines among w[a..b]
NewlinesIn(w, a, b) == {k \in a..b : w[k] = "\n"}

SetMax(S) == CHOOSE x \in S : \A y \in S : y <= x
SetMin(S) == CHOOSE x \in S : \A y \in S : x <= y

\* line 129: re.sub(r'\n\s*\n\s*\n+', '\n\n', text).  A match starts at a
\* newline and runs to the last newline of the whitespace run it is in,
\* when that stretch holds three newlines or more
RECURSIVE CollapseBlankLines(_)
CollapseBlankLines(text) ==
    IF text = <<>> THEN <<>>
    ELSE LET nl == NewlinesIn(text, 1, RunEnd(text, 0, WhiteSpace))
         IN IF text[1] = "\n" /\ Cardinality(nl) >= 3
            THEN <<"\n", "\n">> \o CollapseBlankLines(From(text, SetMax(nl)))
            ELSE <<text[1]>> \o CollapseBlankLines(Tail(text))

\* lines 130 and 138: re.sub(r' +', ' ', text) and re.sub(r'  +', ' ', text)
RECURSIVE CollapseSpaces(_)
CollapseSpaces(text) ==
    IF text = <<>> THEN <<>>
    ELSE IF text[1] = " "
         THEN <<" ">> \o CollapseSpaces(From(text, RunEnd(text, 0, {" "})))
         ELSE <<text[1]>> \o CollapseSpaces(Tail(text))

\* line 134: re.sub(r'([.!?])([A-Z])', r'\1 \2', text)
RECURSIVE SpaceAfterPunct(_)
SpaceAfterPunct(text) ==
    IF text = <<>> THEN <<>>
    ELSE IF Len(text) >= 2 /\ IsPunct(text[1]) /\ IsUpper(text[2])
         THEN <<text[1], " ">> \o SpaceAfterPunct(Tail(text))
         ELSE <<text[1]>> \o SpaceAfterPunct(Tail(text))

\* line 137: re.sub(r'-', ' - ', text) for the em dash
RECURSIVE SpaceEmDash(_)
SpaceEmDash(text) ==
    IF text = <<>> THEN <<>>
    ELSE IF text[1] = EmDash
         THEN <<" ", EmDash, " ">> \o SpaceEmDash(Tail(text))
         ELSE <<text[1]>> \o SpaceEmDash(Tail(text))

\* _normalize_text
normalize_text(text) ==
    CollapseSpaces(SpaceEmDash(SpaceAfterPunct(
        strip(CollapseSpaces(CollapseBlankLines(text))))))

\* the words of break pattern 4 (line 76), each with its trailing space
TransitionWords ==
    {<<"A", "n", "d", " ">>, <<"B", "u", "t", " ">>,
     <<"H", "o", "w", "e", "v", "e", "r", " ">>,
     <<"M", "e", "a", "n", "w", "h", "i", "l", "e", " ">>,
     <<"T", "h", "e", "n", " ">>, <<"N", "o", "w", " ">>,
     <<"S", "t", "i", "l", "l", " ">>}

\* the ends (match.end()) of the matches of break pattern n (lines 72-80)
\* in the window w
MatchEnds(n, w) ==
    LET ws(p) == RunEnd(w, p, WhiteSpace)
        after(c) == {p \in 1..Len(w) : w[p] = c /\ ws(p) > p}
    IN CASE n = 1 ->   \* \n\n+
              {RunEnd(w, p, {"\n"}) :
                 p \in {q \in 1..Len(w) : /\ w[q] = "\n"
                                          /\ (q = 1 \/ w[q - 1] # "\n")
                                          /\ RunEnd(w, q, {"\n"}) > q}}
         [] n = 2 ->   \* (?<=[.!?])\s*\n
              {SetMax(NewlinesIn(w, p + 1, ws(p))) :
                 p \in {q \in 1..Len(w) : /\ IsPunct(w[q])
                                          /\ NewlinesIn(w, q + 1, ws(q)) # {}}}
         [] n = 3 ->   \* (?<=[.!?])\s+(?=[A-Z])
              {ws(p) :
                 p \in {q \in 1..Len(w) : /\ IsPunct(w[q])
                                          /\ ws(q) > q
                                          /\ ws(q) < Len(w)
                                          /\ IsUpper(w[ws(q) + 1])}}
         [] n = 4 ->   \* (?<=,)\s+(?=And |But |However |...)
              {ws(p) :
                 p \in {q \in after(",") :
                          \E word \in TransitionWords : StartsWith(From(w, ws(q)), word)}}
         [] n = 5 -> {ws(p) : p \in after(";")}   \* (?<=;)\s+
         [] n = 6 -> {ws(p) : p \in after(":")}   \* (?<=:)\s+
         [] OTHER -> {ws(p) : p \in after(",")}   \* (?<=,)\s+

NumBreakPatterns == 7

\* the loop of _find_optimal_split returns at the first pattern, in the
\* order of break_patterns, that has a match
LowestPriority(found) == SetMax(found)

HighestPriority(found) == SetMin(found)

\* mutant of find_optimal_split: the patterns are searched in the whole
\* text, not in text[:max_chars]
find_optimal_split_unbounded(text, max_chars) ==
    LET found == {n \in 1..NumBreakPatterns : MatchEnds(n, text) # {}}
    IN IF found = {} THEN -1 ELSE SetMax(MatchEnds(HighestPriority(found), text))

\* _find_optimal_split: the end of the last match of the first pattern that
\* matches in text[:max_chars], or -1
find_optimal_split(text, max_chars) ==
    LET w == UpTo(text, max_chars)
        found == {n \in 1..NumBreakPatterns : MatchEnds(n, w) # {}}
    IN IF found = {} THEN -1 ELSE SetMax(MatchEnds(HighestPriority(found), w))

\* lines 159-160: back off from split_point to the nearest whitespace
RECURSIVE BackOff(_, _)
BackOff(remaining_text, split_point) ==
    IF split_point > 0 /\ remaining_text[split_point + 1] \notin {" ", "\n", "\t"}
    THEN BackOff(remaining_text, split_point - 1)
    ELSE split_point

\* mutant of SplitPoint: a forced split with no whitespace to back off to
\* cuts one character late
SplitPointOneLate(remaining_text, max_chars) ==
    LET found == find_optimal_split(remaining_text, max_chars)
        backed == BackOff(remaining_text, max_chars)
    IN IF found = -1
       THEN IF backed = 0 THEN max_chars + 1 ELSE backed
       ELSE found

\* lines 153-162: the split point of one round of the loop
SplitPoint(remaining_text, max_chars) ==
    LET found == find_optimal_split(remaining_text, max_chars)
        backed == BackOff(remaining_text, max_chars)
    IN IF found = -1
       THEN IF backed = 0 THEN max_chars ELSE backed
       ELSE found

\* mutant of NextStart: the character at the split point is skipped
NextStartSkip(split_point, overlap_chars) == split_point + 1

\* line 169: next_start = max(split_point - self.overlap_chars, split_point)
NextStart(split_point, overlap_chars) ==
    Max(split_point - overlap_chars, split_point)

VARIABLES
    chunker         \* an IntelligentTextChunker and its chunk_text call

cvars == <<chunker>>

\* texts longer than MaxChunkTextLen, for the patterns that need room
LongTexts ==
    {<<"a", ",", " ", "A", "n", "d", " ", "a", ";", " ", "a", ":", " ", "a">>,
     <<"a", ":", " ", "a", ",", " ", "a", ";", " ", "a", ".", " ", "A">>,
     <<"a", ",", " ", "a", ",", " ", "B", "u", "t", " ", "a", ";", " ", "a">>,
     <<"a", ".", "\n", "a", "\n", "\n", "a", ".", " ", "A", ",", " ", "a">>,
     <<"a", "a", " ", "a", "a", "a", "a", "a", "a", "a", "a", "a", "a", " ", "a">>}

ChunkerAlphabet == {"a", "A", ".", ",", " ", "\n", EmDash}
ChunkerTexts == SeqsUpTo(ChunkerAlphabet, MaxChunkTextLen)

\* a text of 9,000 characters chunked with max_chars = 4000, counted in
\* thousands of characters: every text of ScenarioLen letters, spaces and
\* newlines
ScenarioLen == 9
ScenarioMaxChars == 4
ScenarioTexts == [1..ScenarioLen -> {"a", " ", "\n"}]

\* the overlap_chars a chunker is built with: none, or some
OverlapChars == {0, 1}

\* a chunker that is not in use
NoChunker == [pc |-> "off"]

\* IntelligentTextChunker(max_chars, overlap_chars)
ChunkerInit ==
    \E m \in 1..LongMaxChars, o \in OverlapChars :
        chunker = [pc |-> "ready", max_chars |-> m, overlap_chars |-> o,
                   text |-> <<>>, normalized |-> <<>>, remaining_text |-> <<>>,
                   split_from |-> <<>>, split_point |-> 0,
                   chunks |-> <<>>, text_chunks |-> <<>>]

\* TextChunk(text, chunk_index, total_chunks, character_count)
TextChunk(text, i, n, count) ==
    [text |-> text, chunk_index |-> i, total_chunks |-> n, character_count |-> count]

\* chunk_text(text), lines 94-107: normalise; a text that fits is the only
\* chunk, a longer one goes to _split_intelligently
chunk_text ==
    /\ chunker.pc = "ready"
    /\ \E text \in (IF chunker.max_chars <= MaxMaxChars
                    THEN ChunkerTexts \cup LongTexts ELSE LongTexts)
                   \cup (IF chunker.max_chars = ScenarioMaxChars
                         THEN ScenarioTexts ELSE {}) :
       LET t == normalize_text(text)
       IN IF Len(t) <= chunker.max_chars
          THEN chunker' = [chunker EXCEPT !.pc = "done", !.text = text,
                              !.normalized = t,
                              !.text_chunks = <<TextChunk(t, 1, 1, Len(t))>>]
          ELSE chunker' = [chunker EXCEPT !.pc = "splitting", !.text = text,
                              !.normalized = t, !.remaining_text = t]
    /\ UNCHANGED pvars

\* _split_intelligently, lines 147-170: one round of the while loop;
\* split_from and split_point keep the remaining text the round started
\* with and the split point it cut at
split_intelligently ==
    /\ chunker.pc = "splitting"
    /\ LET rem == chunker.remaining_text
           split_point == SplitPoint(rem, chunker.max_chars)
           next_start == NextStart(split_point, chunker.overlap_chars)
           rest == strip(From(rem, next_start))
       IN IF Len(rem) <= chunker.max_chars
          THEN chunker' = [chunker EXCEPT !.pc = "split",
                              !.chunks = Append(@, rem)]
          ELSE chunker' = [chunker EXCEPT
                              !.pc = IF rest = <<>> THEN "split" ELSE "splitting",
                              !.chunks = Append(@, strip(UpTo(rem, split_point))),
                              !.split_from = rem, !.split_point = split_point,
                              !.remaining_text = rest]
    /\ UNCHANGED pvars

\* chunk_text, lines 110-124: the TextChunk objects of the chunks
BuildChunks(chunks) ==
    [i \in 1..Len(chunks) |->
        TextChunk(strip(chunks[i]), i, Len(chunks), Len(chunks[i]))]

build_text_chunks ==
    /\ chunker.pc = "split"
    /\ chunker' = [chunker EXCEPT !.pc = "done",
                                  !.text_chunks = BuildChunks(chunker.chunks)]
    /\ UNCHANGED pvars

(***************************************************************************)
(* AudioConcatenator (audio_concatenator.py)                               *)
(***************************************************************************)
\* bounds: the longest audio_files list, and the seconds datetime.now() can
\* fall in
MaxSegments == 2
NumSeconds == 2

VARIABLES
    fs,         \* the file system: for every path, whether a file exists
                \* there and its content
    concat      \* one concatenate_chunks call per call id: its frame

kvars == <<fs, concat>>

\* the ids of the calls that can be under way
ConcatCalls == {1, 2}
Seconds == 1..NumSeconds

\* self.temp_dir / name (line 34: "temp/audio_processing")
TempPath(name, n) == [dir |-> "temp/audio_processing", name |-> name, n |-> n]
\* line 187: self.temp_dir / "silence.mp3"
silence_path == TempPath("silence.mp3", 0)
\* line 127: self.temp_dir / f"concat_list_{now:%Y%m%d_%H%M%S}.txt"
InputListPath(ts) == TempPath("concat_list", ts)
\* the caller's audio files and output path
ChunkFile(k) == [dir |-> "chunks", name |-> "chunk", n |-> k]
EpisodePath(c) == [dir |-> "episodes", name |-> "episode", n |-> c]
NoPath == [dir |-> "", name |-> "", n |-> 0]

Paths ==
    {silence_path} \cup {InputListPath(ts) : ts \in Seconds}
    \cup {ChunkFile(k) : k \in 1..MaxSegments}
    \cup {EpisodePath(c) : c \in ConcatCalls}

NoFile == [exists |-> FALSE, data |-> <<>>]
File(data) == [exists |-> TRUE, data |-> data]

\* the audio_files lists a caller may pass
AudioFileLists ==
    {[i \in DOMAIN ks |-> ChunkFile(ks[i])] : ks \in SeqsUpTo(1..MaxSegments, MaxSegments)}

IdleCall ==
    [pc |-> "idle", audio_files |-> <<>>, output_path |-> NoPath,
     add_pauses |-> FALSE, input_list_path |-> NoPath, silence_file |-> NoPath,
     ffmpeg |-> None,
     result |-> [success |-> FALSE, error |-> "", method |-> "",
                 chunks_processed |-> 0, warning |-> FALSE],
     exception |-> "", cleaned |-> FALSE]

\* the caller's audio files before the call: missing, empty, or holding
\* audio
InputFiles(st) ==
    [p \in Paths |->
        IF p.dir = "chunks"
        THEN CASE st[p.n] = "missing" -> NoFile
               [] st[p.n] = "empty" -> File(<<>>)
               [] st[p.n] = "audio" -> File(<<p.n>>)
        ELSE NoFile]

\* one call, on any audio files
ConcatInit ==
    /\ fs \in {InputFiles(st) : st \in [1..MaxSegments -> {"missing", "empty", "audio"}]}
    /\ concat = [c \in {1} |-> IdleCall]

\* two calls that can overlap, on audio files that all hold audio
ConcatRaceInit ==
    /\ fs = InputFiles([k \in 1..MaxSegments |-> "audio"])
    /\ concat = [c \in ConcatCalls |-> IdleCall]

\* the dict of lines 98-102, and the dicts the three methods return once
\* lines 87-89 have set "success"; warning: the dict has a "warning" key
ConcatFailure(error) ==
    [success |-> FALSE, error |-> error, method |-> "",
     chunks_processed |-> 0, warning |-> FALSE]
ConcatSuccess(method, chunks_processed, warning) ==
    [success |-> TRUE, error |-> "", method |-> method,
     chunks_processed |-> chunks_processed, warning |-> warning]

ConcatReturn(fr, result) == [fr EXCEPT !.pc = "returned", !.result = result]
ConcatRaise(fr, what) == [fr EXCEPT !.pc = "raised", !.exception = what]

\* lines 86-94: the validation of the output of the two multi-file methods
Validate(fr, fsys, result) ==
    IF fsys[fr.output_path].exists /\ fsys[fr.output_path].data # <<>>
    THEN ConcatReturn(fr, result)
    ELSE ConcatReturn(fr, ConcatFailure("output file is empty or missing"))

\* lines 129-134: the input list as first written; a pause follows every
\* file that differs from the last one of the list
RECURSIVE InputListFirst(_, _, _)
InputListFirst(audio_files, last, add_pauses) ==
    IF audio_files = <<>> THEN <<>>
    ELSE <<Head(audio_files)>>
         \o (IF add_pauses /\ Head(audio_files) # last THEN <<silence_path>> ELSE <<>>)
         \o InputListFirst(Tail(audio_files), last, add_pauses)

\* lines 141-145: the input list as written again once the silence file
\* exists; a pause follows every file but the one at the last index
RECURSIVE InputList(_, _)
InputList(audio_files, add_pauses) ==
    IF audio_files = <<>> THEN <<>>
    ELSE <<Head(audio_files)>>
         \o (IF add_pauses /\ Len(audio_files) > 1 THEN <<silence_path>> ELSE <<>>)
         \o InputList(Tail(audio_files), add_pauses)

\* concatenate_chunks, lines 63-77, with _copy_single_file (226-238), up
\* to the ffmpeg version probe: the file system and the frame it leaves,
\* from the file system fsys and the frame fr that holds the arguments
ConcatEnter(fsys, fr) ==
    IF fr.audio_files = <<>>
    THEN [fs |-> fsys, fr |-> ConcatRaise(fr, "ValueError")]
    ELSE IF Len(fr.audio_files) = 1
    THEN IF fsys[fr.audio_files[1]].exists
         THEN [fs |-> [fsys EXCEPT ![fr.output_path] = fsys[fr.audio_files[1]]],
               fr |-> ConcatReturn(fr, ConcatSuccess("single_file_copy", 1, FALSE))]
         ELSE [fs |-> fsys, fr |-> ConcatRaise(fr, "FileNotFoundError")]
    ELSE [fs |-> fsys, fr |-> [fr EXCEPT !.pc = "has_ffmpeg"]]

\* concatenate_chunks(audio_files, output_path, add_pauses)
concatenate_chunks(c) ==
    /\ concat[c].pc = "idle"
    /\ \E audio_files \in AudioFileLists, add_pauses \in BOOLEAN :
         LET entered == ConcatEnter(fs, [concat[c] EXCEPT
                                            !.audio_files = audio_files,
                                            !.output_path = EpisodePath(c),
                                            !.add_pauses = add_pauses])
         IN /\ fs' = entered.fs
            /\ concat' = [concat EXCEPT ![c] = entered.fr]

\* _has_ffmpeg (104-115) has answered.  With ffmpeg: _concatenate_with_ffmpeg
\* writes the input list (126-134).  Without: _concatenate_simple (205-224)
\* copies the first file, and lines 86-102 validate the output
\* shutil.copy2(audio_files[0], output_path) of _concatenate_simple: the
\* file written at output_path
CopyLast(fsys, audio_files) == fsys[audio_files[Len(audio_files)]]

CopyFirst(fsys, audio_files) == fsys[audio_files[1]]

has_ffmpeg(c, available) ==
    /\ concat[c].pc = "has_ffmpeg"
    /\ LET fr == [concat[c] EXCEPT !.ffmpeg = IF available THEN "available"
                                                     ELSE "unavailable"]
       IN IF available
          THEN \E ts \in Seconds :
                 /\ fs' = [fs EXCEPT ![InputListPath(ts)] =
                              File(InputListFirst(fr.audio_files,
                                                  fr.audio_files[Len(fr.audio_files)],
                                                  fr.add_pauses))]
                 /\ concat' = [concat EXCEPT ![c] =
                                 [fr EXCEPT !.input_list_path = InputListPath(ts),
                                            !.pc = IF fr.add_pauses
                                                   THEN "create_silence_file"
                                                   ELSE "run_ffmpeg"]]
          ELSE IF fs[fr.audio_files[1]].exists
               THEN LET copied == [fs EXCEPT ![fr.output_path] =
                                                CopyFirst(fs, fr.audio_files)]
                    IN /\ fs' = copied
                       /\ concat' = [concat EXCEPT ![c] =
                             Validate(fr, copied, ConcatSuccess("simple_copy", 1, TRUE))]
               ELSE /\ concat' = [concat EXCEPT ![c] =
                                     ConcatReturn(fr, ConcatFailure("No such file"))]
                    /\ UNCHANGED fs

\* _create_silence_file (185-203) has run ffmpeg; on success the input list
\* is written again (141-145), on failure the exception leaves
\* _concatenate_with_ffmpeg before its try block and is caught at line 96
create_silence_file(c, ok) ==
    /\ concat[c].pc = "create_silence_file"
    /\ LET fr == concat[c]
       IN IF ok
          THEN /\ fs' = [fs EXCEPT ![silence_path] = File(<<0>>),
                                   ![fr.input_list_path] =
                                       File(InputList(fr.audio_files, fr.add_pauses))]
               /\ concat' = [concat EXCEPT ![c] =
                               [fr EXCEPT !.silence_file = silence_path,
                                          !.pc = "run_ffmpeg"]]
          ELSE /\ concat' = [concat EXCEPT ![c] =
                               ConcatReturn(fr, ConcatFailure("Failed to create silence file"))]
               /\ UNCHANGED fs

\* what ffmpeg -f concat writes for an input list: the listed files' audio
\* in order
RECURSIVE ConcatData(_, _)
ConcatData(fsys, list) ==
    IF list = <<>> THEN <<>>
    ELSE fsys[Head(list)].data \o ConcatData(fsys, Tail(list))

\* ffmpeg can read the input list and every file it names
Readable(fsys, input_list_path) ==
    /\ fsys[input_list_path].exists
    /\ \A i \in DOMAIN fsys[input_list_path].data :
          fsys[fsys[input_list_path].data[i]].exists

\* the finally block, lines 178-183
Unlink(fsys, fr) ==
    [p \in Paths |->
        IF p = fr.input_list_path \/ (fr.silence_file # NoPath /\ p = fr.silence_file)
        THEN NoFile ELSE fsys[p]]

\* lines 147-183 and 86-102: ffmpeg has run (exit 0, exit non-zero, or
\* timeout), the finally block deletes the temporary files, and the output
\* is validated
run_ffmpeg(c, outcome) ==
    /\ concat[c].pc = "run_ffmpeg"
    /\ outcome = "ok" => Readable(fs, concat[c].input_list_path)
    /\ LET fr == concat[c]
           written == IF outcome = "ok"
                      THEN [fs EXCEPT ![fr.output_path] =
                              File(ConcatData(fs, fs[fr.input_list_path].data))]
                      ELSE fs
           after == Unlink(written, fr)
       IN /\ fs' = after
          /\ concat' = [concat EXCEPT ![c] =
                CASE outcome = "ok" ->
                        Validate(fr, after,
                                 ConcatSuccess("ffmpeg", Len(fr.audio_files), FALSE))
                  [] outcome = "error" -> ConcatReturn(fr, ConcatFailure("ffmpeg failed"))
                  [] outcome = "timeout" -> ConcatReturn(fr, ConcatFailure("timed out"))]

\* cleanup_temp_files (259-266), as concatenate_episode_chunks calls it
\* when concatenate_chunks is over (290-291)
cleanup_temp_files(c) ==
    /\ concat[c].pc \in {"returned", "raised"}
    /\ ~concat[c].cleaned
    /\ fs' = [p \in Paths |-> IF p.dir = silence_path.dir THEN NoFile ELSE fs[p]]
    /\ concat' = [concat EXCEPT ![c].cleaned = TRUE]

FfmpegOutcomes == {"ok", "error", "timeout"}

(***************************************************************************)
(* OpenAITTSProvider.synthesize_long_text (openai_tts.py 201-348)          *)
(***************************************************************************)
VARIABLES
    lt              \* one synthesize_long_text call: its frame

lvars == <<lt>>

\* what self.synthesize (61-127) does with a request: it writes the audio
\* and returns success; the API call raises and nothing is written; or the
\* file has been opened for writing (line 84) when an exception is raised.
\* In the last two cases the except branch returns a failure result.
SynthOutcomes == {"ok", "api_error", "write_error"}

\* the file synthesize leaves at the request's output_path
Synthesized(outcome, audio) ==
    CASE outcome = "ok" -> File(<<audio>>)
      [] outcome = "write_error" -> File(<<>>)
      [] OTHER -> NoFile

\* line 255: temp_dir / f"chunk_{i+1:02d}_{job_id or 'episode'}.mp3"
chunk_path(i) == ChunkFile(i + 1)

NoLongText == [pc |-> "off"]

\* the files an earlier call may have left behind: chunk files of the same
\* job_id, the episode itself and the concatenator's silence clip
StalePaths ==
    {ChunkFile(k) : k \in 1..MaxSegments} \cup {EpisodePath(1), silence_path}

LongTextInit ==
    /\ \E stale \in SUBSET StalePaths :
          fs = [p \in Paths |-> IF p \in stale THEN File(<<0>>) ELSE NoFile]
    /\ concat = [c \in {1} |-> IdleCall]
    /\ lt = [pc |-> "ready", chunked |-> FALSE, chunks |-> 0, i |-> 0,
             chunk_files |-> <<>>, created |-> {}, output_path |-> EpisodePath(1),
             concatenated |-> FALSE,
             result |-> [success |-> FALSE, error |-> ""]]

LongTextReturn(fr, success, error) ==
    [fr EXCEPT !.pc = "returned", !.result = [success |-> success, error |-> error]]

\* _cleanup_chunk_files(chunk_files), lines 341-348
cleanup_chunk_files(fsys, chunk_files) ==
    [p \in Paths |->
        IF \E k \in DOMAIN chunk_files : chunk_files[k] = p THEN NoFile ELSE fsys[p]]

\* synthesize_long_text(text, voice_config, output_path, job_id), lines
\* 226-260: a text within 4000 characters goes to synthesize as it is; a
\* longer one is chunked (into `chunks` chunks) and the first chunk is sent
synthesize_long_text(long, chunks) ==
    /\ lt.pc = "ready"
    /\ lt' = [lt EXCEPT !.pc = IF long THEN "await_chunk" ELSE "await_single",
                        !.chunked = long,
                        !.chunks = IF long THEN chunks ELSE 0]
    /\ UNCHANGED kvars

\* line 234: the result of synthesize is the result of the call
SingleReturns(outcome) ==
    /\ lt.pc = "await_single"
    /\ fs' = [fs EXCEPT ![lt.output_path] = Synthesized(outcome, 1)]
    /\ lt' = LongTextReturn(lt, outcome = "ok", IF outcome = "ok" THEN "" ELSE "OpenAI TTS error")
    /\ UNCHANGED concat

\* line 266: the synthesize of chunk i + 1 comes back.  On a failure the
\* files of chunk_files are deleted and the call returns (268-274); else
\* the loop goes on to the next chunk or, after the last one, to
\* concatenate_chunks(chunk_files, output_path, add_pauses=True) (283-289)
LongChunkReturns(outcome) ==
    /\ lt.pc = "await_chunk"
    /\ LET path == chunk_path(lt.i)
           written == [fs EXCEPT ![path] = Synthesized(outcome, lt.i + 1)]
           fr == [lt EXCEPT !.created = IF written[path].exists THEN @ \cup {path} ELSE @]
       IN IF outcome # "ok"
          THEN /\ fs' = cleanup_chunk_files(written, lt.chunk_files)
               /\ lt' = LongTextReturn(fr, FALSE, "Chunk failed")
               /\ UNCHANGED concat
          ELSE LET next == [fr EXCEPT !.chunk_files = Append(@, path), !.i = @ + 1]
               IN IF next.i < next.chunks
                  THEN /\ fs' = written
                       /\ lt' = next
                       /\ UNCHANGED concat
                  ELSE LET entered == ConcatEnter(written,
                                         [concat[1] EXCEPT
                                             !.audio_files = next.chunk_files,
                                             !.output_path = lt.output_path,
                                             !.add_pauses = TRUE])
                       IN /\ fs' = entered.fs
                          /\ concat' = [concat EXCEPT ![1] = entered.fr]
                          /\ lt' = [next EXCEPT !.pc = "await_concat",
                                                !.concatenated = TRUE]

\* concatenate_chunks is over.  It raised: the except branch (330-339)
\* deletes the chunk files; it returned a failure: lines 291-296 do; it
\* returned success: lines 298-326 build the result, delete the chunk
\* files and call concatenator.cleanup_temp_files()
ConcatenationOver ==
    /\ lt.pc = "await_concat"
    /\ concat[1].pc \in {"returned", "raised"}
    /\ LET cleaned == cleanup_chunk_files(fs, lt.chunk_files)
       IN IF concat[1].pc = "raised"
          THEN /\ fs' = cleaned
               /\ lt' = LongTextReturn(lt, FALSE, "Long text synthesis error")
               /\ UNCHANGED concat
          ELSE IF ~concat[1].result.success
          THEN /\ fs' = cleaned
               /\ lt' = LongTextReturn(lt, FALSE, "Concatenation failed")
               /\ UNCHANGED concat
          ELSE /\ fs' = [p \in Paths |->
                           IF p.dir = silence_path.dir THEN NoFile ELSE cleaned[p]]
               /\ lt' = LongTextReturn(lt, TRUE, "")
               /\ concat' = [concat EXCEPT ![1].cleaned = TRUE]

(***************************************************************************)
(* AudioPipeline.split_into_episodes (audio_pipeline.py 243-304)           *)
(***************************************************************************)
\* bound: the texts are made of up to MaxPieces pieces
MaxPieces == 4

\* line 255: words_per_minute
words_per_minute == 150
\* target_duration_minutes is counted in DurationUnit-ths of a minute
DurationUnit == 300

VARIABLES
    ep      \* the frame of one split_into_episodes call

evars == <<ep>>

Dashes == <<"-", "-", "-">>
Stars == <<"*", "*", "*">>
Chapter == <<"C", "h", "a", "p", "t", "e", "r", " ">>
CHAPTER == <<"C", "H", "A", "P", "T", "E", "R", " ">>
BlankLines == <<"\n", "\n", "\n">>

\* line 264: natural_breaks
natural_breaks == <<Dashes, Stars, Chapter, CHAPTER, BlankLines>>

\* the texts a caller may pass: every text of up to MaxPieces pieces, and
\* some longer stories
EpisodePieces == {<<"a">>, <<"b">>, <<" ">>, <<"\n">>, Dashes, Chapter, BlankLines}
FourWords == <<"a", " ", "b", " ", "a", " ", "b">>
ThreeSections == join(<<FourWords, Dashes, FourWords, Stars, FourWords>>)
EpisodeSamples ==
    {ThreeSections,
     join(<<Chapter, <<"a">>, BlankLines, CHAPTER, <<"b", " ", "a">>, Stars, <<"\n">>,
            Dashes, <<"-", "b", "\n", "\n", "a">>>>),
     join(<<<<"a", " ", "b">>, Stars, <<"a">>, Dashes, <<"b">>, CHAPTER, <<"a", "\n", "b">>,
            BlankLines, <<"\n", "a">>>>)}
EpisodeTexts ==
    {join(pieces) : pieces \in SeqsUpTo(EpisodePieces, MaxPieces)} \cup EpisodeSamples

\* the target_duration_minutes a caller may pass, in DurationUnit-ths
TargetDurations == {0, 2, 3, 4, 7, 10}

\* line 256: int(target_duration_minutes * words_per_minute)
target_words(target_duration_minutes) ==
    (target_duration_minutes * words_per_minute) \div DurationUnit

\* len(section.split()), line 278: the number of runs of non-whitespace
WordCount(section) ==
    Cardinality({i \in 1..Len(section) :
                    ~IsSpace(section[i]) /\ (i = 1 \/ IsSpace(section[i - 1]))})

\* mutant of SplitEach: only what precedes the first marker of a section is
\* kept
RECURSIVE SplitEachFirstOnly(_, _)
SplitEachFirstOnly(sections, break_marker) ==
    IF sections = <<>> THEN <<>>
    ELSE <<Head(split(Head(sections), break_marker))>>
         \o SplitEachFirstOnly(Tail(sections), break_marker)

\* lines 268-271: every section is split at one break marker
RECURSIVE SplitEach(_, _)
SplitEach(sections, break_marker) ==
    IF sections = <<>> THEN <<>>
    ELSE split(Head(sections), break_marker) \o SplitEach(Tail(sections), break_marker)

\* lines 266-271: the sections, split at each break marker in turn
RECURSIVE SplitByBreaks(_, _)
SplitByBreaks(sections, breaks) ==
    IF breaks = <<>> THEN sections
    ELSE SplitByBreaks(SplitEach(sections, Head(breaks)), Tail(breaks))

\* EpisodeSegment(text, estimated_duration_minutes, break_type,
\* sequence_number); the duration is in words_per_minute-ths of a minute
EpisodeSegment(text, words, break_type, sequence_number) ==
    [text |-> text, estimated_duration_minutes |-> words,
     break_type |-> break_type, sequence_number |-> sequence_number]

NoEpisodes == [pc |-> "off"]

\* the call is made with some target_duration_minutes
EpisodesInit ==
    \E t \in TargetDurations :
        ep = [pc |-> "ready", target_duration_minutes |-> t, text |-> <<>>,
              target_words |-> 0, sections |-> <<>>, k |-> 1,
              current_text |-> <<>>, current_words |-> 0, sequence |-> 1,
              episodes |-> <<>>, current_parts |-> <<>>, parts |-> <<>>,
              log |-> <<>>]

\* lines 254-271: the target and the sections
split_into_episodes ==
    /\ ep.pc = "ready"
    /\ \E text \in EpisodeTexts :
         ep' = [ep EXCEPT !.pc = "loop", !.text = text,
                          !.target_words = target_words(ep.target_duration_minutes),
                          !.sections = SplitByBreaks(<<text>>, natural_breaks)]

\* mutant of ExceedsTarget: a section that exactly fills the target closes
\* the episode
ExceedsTargetOrFills(current_words, section_words, target) ==
    current_words + section_words >= target

\* line 281: current_words + section_words > target_words
ExceedsTarget(current_words, section_words, target) ==
    current_words + section_words > target

\* mutant of NextSequence: the sequence number is not advanced
NextSequenceSame(sequence) == sequence

\* line 288: sequence += 1
NextSequence(sequence) == sequence + 1

\* lines 273-293: one round of the loop over the sections.  current_parts,
\* parts and log record which sections went into which episode and what
\* each round decided
section_loop ==
    /\ ep.pc = "loop"
    /\ ep.k <= Len(ep.sections)
    /\ LET section == strip(ep.sections[ep.k])
           section_words == WordCount(section)
           close == ExceedsTarget(ep.current_words, section_words, ep.target_words)
                    /\ ep.current_text # <<>>
           round == [section |-> section, section_words |-> section_words,
                     current_words |-> ep.current_words,
                     current_text |-> ep.current_text, closed |-> close]
       IN IF section = <<>>
          THEN ep' = [ep EXCEPT !.k = @ + 1]
          ELSE IF close
          THEN ep' = [ep EXCEPT
                        !.k = @ + 1,
                        !.episodes = Append(@, EpisodeSegment(ep.current_text,
                                                   ep.current_words, "natural",
                                                   ep.sequence)),
                        !.sequence = NextSequence(@),
                        !.current_text = section,
                        !.current_words = section_words,
                        !.parts = Append(@, ep.current_parts),
                        !.current_parts = <<section>>,
                        !.log = Append(@, round)]
          ELSE ep' = [ep EXCEPT
                        !.k = @ + 1,
                        !.current_text = IF @ # <<>> THEN @ \o <<"\n", "\n">> \o section
                                         ELSE section,
                        !.current_words = @ + section_words,
                        !.current_parts = Append(@, section),
                        !.log = Append(@, round)]

\* lines 295-304: the final episode
add_final_episode ==
    /\ ep.pc = "loop"
    /\ ep.k > Len(ep.sections)
    /\ IF ep.current_text # <<>>
       THEN ep' = [ep EXCEPT
                     !.pc = "done",
                     !.episodes = Append(@, EpisodeSegment(ep.current_text,
                                                ep.current_words, "final",
                                                ep.sequence)),
                     !.parts = Append(@, ep.current_parts)]
       ELSE ep' = [ep EXCEPT !.pc = "done"]

(***************************************************************************)
(* estimate_cost of the providers (openai_tts.py 162-174, google_tts.py     *)
(* 173-189).  The cost depends on the text through len(text) only, so a     *)
(* text is kept as its character count.                                     *)
(***************************************************************************)
\* the longest text is MaxCostUnits * 125 characters
MaxCostUnits == 40

VARIABLES
    est             \* estimate_cost calls on one provider with one voice

tvars == <<est>>

\* character counts on both sides of the counts at which the cost of some
\* tier rises by a cent (a multiple of 62.5, 625, 666.7 or 2500)
CostLengths ==
    {0, 1, 666, 667, 1333, 1334}
        \cup {k * 125 - d : k \in 1..MaxCostUnits, d \in {0, 1}}

\* voice ids, by the substring estimate_cost looks for; None is no voice id
VoiceIds == {"Journey", "Studio", "Wavenet", "Neural2", None}

\* cost_per_million of estimate_cost, in cents
CostPerMillion(p, voice_id) ==
    CASE p = "openai" -> 1500
      [] p = "google" /\ voice_id \in {"Journey", "Studio"} -> 16000
      [] p = "google" /\ voice_id = "Wavenet" -> 1600
      [] OTHER -> 400

NoEstimate == [provider |-> None, voice_id |-> None, calls |-> <<>>]

EstimateInit ==
    \E p \in {"openai", "google"}, v \in VoiceIds :
        /\ p = "openai" => v = None
        /\ est = [provider |-> p, voice_id |-> v, calls |-> <<>>]

\* provider.estimate_cost(text[, voice_id]) with len(text) = character_count
estimate_cost_call(character_count) ==
    /\ est.provider # None
    /\ Len(est.calls) < 2
    /\ est' = [est EXCEPT !.calls = Append(@,
                 [character_count |-> character_count,
                  cost |-> CostCents(CostPerMillion(est.provider, est.voice_id),
                                     character_count)])]

(***************************************************************************)
(* Specifications                                                          *)
(***************************************************************************)
vars == <<providers, voice_config, job, files, chunker, fs, concat, ep, est, lt>>

\* the subsystems that are not in use in a specification
NoChunkerInUse == chunker = NoChunker
NoConcat == fs = [p \in Paths |-> NoFile] /\ concat = <<>>
NoEpisodesInUse == ep = NoEpisodes
NoEstimateInUse == est = NoEstimate
NoLongTextInUse == lt = NoLongText

ChunkerNext ==
    \/ chunk_text /\ UNCHANGED <<kvars, evars, tvars, lvars>>
    \/ split_intelligently /\ UNCHANGED <<kvars, evars, tvars, lvars>>
    \/ build_text_chunks /\ UNCHANGED <<kvars, evars, tvars, lvars>>

ConcatNext ==
    \/ \E c \in DOMAIN concat : concatenate_chunks(c) /\ UNCHANGED <<pvars, cvars, evars, tvars, lvars>>
    \/ \E c \in DOMAIN concat, available \in BOOLEAN :
          has_ffmpeg(c, available) /\ UNCHANGED <<pvars, cvars, evars, tvars, lvars>>
    \/ \E c \in DOMAIN concat, ok \in BOOLEAN :
          create_silence_file(c, ok) /\ UNCHANGED <<pvars, cvars, evars, tvars, lvars>>
    \/ \E c \in DOMAIN concat, outcome \in FfmpegOutcomes :
          run_ffmpeg(c, outcome) /\ UNCHANGED <<pvars, cvars, evars, tvars, lvars>>
    \/ \E c \in DOMAIN concat : cleanup_temp_files(c) /\ UNCHANGED <<pvars, cvars, evars, tvars, lvars>>

\* the pipeline, with no chunker in use
Init == PipelineInit /\ NoChunkerInUse /\ NoConcat /\ NoEpisodesInUse /\ NoEstimateInUse /\ NoLongTextInUse
Next ==
    \/ \E p \in TTSProvider : register_provider(p) /\ UNCHANGED <<cvars, kvars, evars, tvars, lvars>>
    \/ \E j \in DOMAIN job : generate_audio(j) /\ UNCHANGED <<cvars, kvars, evars, tvars, lvars>>
    \/ \E j \in DOMAIN job, outcome \in Outcomes :
          PrimaryReturns(j, outcome) /\ UNCHANGED <<cvars, kvars, evars, tvars, lvars>>
    \/ \E j \in DOMAIN job, outcome \in Outcomes :
          FallbackReturns(j, outcome) /\ UNCHANGED <<cvars, kvars, evars, tvars, lvars>>
    \/ \E j \in DOMAIN job, outcome \in Outcomes :
          ChunkReturns(j, outcome) /\ UNCHANGED <<cvars, kvars, evars, tvars, lvars>>
Spec == Init /\ [][Next]_vars

\* two calls of the pipeline with one VoiceConfig object
SharedSpecInit ==
    SharedConfigInit /\ NoChunkerInUse /\ NoConcat /\ NoEpisodesInUse /\ NoEstimateInUse /\ NoLongTextInUse
SpecSharedConfig == SharedSpecInit /\ [][Next]_vars

\* the chunker alone
NoPipeline ==
    /\ providers = {}
    /\ voice_config = DefaultConfig("google")
    /\ job = <<>>
    /\ files = {}
ChunkerSpecInit == NoPipeline /\ ChunkerInit /\ NoConcat /\ NoEpisodesInUse /\ NoEstimateInUse /\ NoLongTextInUse
SpecChunker == ChunkerSpecInit /\ [][ChunkerNext]_vars

\* one concatenate_chunks call
ConcatSpecInit == NoPipeline /\ NoChunkerInUse /\ ConcatInit /\ NoEpisodesInUse /\ NoEstimateInUse /\ NoLongTextInUse
SpecConcat == ConcatSpecInit /\ [][ConcatNext]_vars

\* two concatenate_chunks calls of two processes that share the working
\* directory
ConcatRaceSpecInit == NoPipeline /\ NoChunkerInUse /\ ConcatRaceInit /\ NoEpisodesInUse /\ NoEstimateInUse /\ NoLongTextInUse
SpecConcatRace == ConcatRaceSpecInit /\ [][ConcatNext]_vars

\* one split_into_episodes call
EpisodesNext ==
    \/ split_into_episodes /\ UNCHANGED <<pvars, cvars, kvars, tvars, lvars>>
    \/ section_loop /\ UNCHANGED <<pvars, cvars, kvars, tvars, lvars>>
    \/ add_final_episode /\ UNCHANGED <<pvars, cvars, kvars, tvars, lvars>>
EpisodesSpecInit == NoPipeline /\ NoChunkerInUse /\ NoConcat /\ EpisodesInit /\ NoEstimateInUse /\ NoLongTextInUse
SpecEpisodes == EpisodesSpecInit /\ [][EpisodesNext]_vars

\* estimate_cost calls on one provider
EstimateNext ==
    \E n \in CostLengths : estimate_cost_call(n) /\ UNCHANGED <<pvars, cvars, kvars, evars, lvars>>
EstimateSpecInit ==
    NoPipeline /\ NoChunkerInUse /\ NoConcat /\ NoEpisodesInUse /\ EstimateInit
        /\ NoLongTextInUse
SpecEstimate == EstimateSpecInit /\ [][EstimateNext]_vars

\* one synthesize_long_text call and the concatenation it runs
LongTextNext ==
    \/ \E long \in BOOLEAN, chunks \in 1..MaxSegments :
          synthesize_long_text(long, chunks) /\ UNCHANGED <<pvars, cvars, evars, tvars>>
    \/ \E outcome \in SynthOutcomes :
          SingleReturns(outcome) /\ UNCHANGED <<pvars, cvars, evars, tvars>>
    \/ \E outcome \in SynthOutcomes :
          LongChunkReturns(outcome) /\ UNCHANGED <<pvars, cvars, evars, tvars>>
    \/ \E available \in BOOLEAN :
          has_ffmpeg(1, available) /\ UNCHANGED <<pvars, cvars, evars, tvars, lvars>>
    \/ \E ok \in BOOLEAN :
          create_silence_file(1, ok) /\ UNCHANGED <<pvars, cvars, evars, tvars, lvars>>
    \/ \E outcome \in FfmpegOutcomes :
          run_ffmpeg(1, outcome) /\ UNCHANGED <<pvars, cvars, evars, tvars, lvars>>
    \/ ConcatenationOver /\ UNCHANGED <<pvars, cvars, evars, tvars>>
LongTextSpecInit ==
    NoPipeline /\ NoChunkerInUse /\ LongTextInit /\ NoEpisodesInUse /\ NoEstimateInUse
SpecLongText == LongTextSpecInit /\ [][LongTextNext]_vars

(***************************************************************************)
(* Properties of AudioPipeline.generate_audio                              *)
(***************************************************************************)
Done(jr) == jr.pc \in {"returned", "raised"}

\* the synthesize calls of a job, in the order they were issued
SynthCalls(jr) == SelectSeq(jr.calls, LAMBDA c : c.op = "synthesize")

\* the job took the direct path (line 90) / the chunked path (line 85)
Direct(jr) == jr.provider # None /\ Len(jr.text) <= get_limits(jr.provider)
Chunked(jr) == jr.provider # None /\ Len(jr.text) > get_limits(jr.provider)

\* a fallback provider is configured for p and registered
HasFallback(p) ==
    p \in DOMAIN fallback_providers /\ fallback_providers[p] \in providers

\* C1: when generate_audio has returned, the caller's voice_config object
\* has the fields it had when it was passed in (the fallback works on a copy)
C1_ConfigNeverMutated ==
    \A j \in DOMAIN job :
        Done(job[j]) => voice_config = job[j].given_config

\* C2: on the direct path, when the primary's synthesize returned a failure
\* and a fallback is configured and registered, the primary and then the
\* fallback are each called exactly once with the job's text and
\* destination, the fallback's result is what is returned, and there is
\* never a third synthesize call
C2_SingleHopFallback ==
    \A j \in DOMAIN job :
        LET jr == job[j]
            sc == SynthCalls(jr)
            primary == jr.given_config.provider
            fb == fallback_providers[primary]
            request == [text |-> jr.text, output_path |-> jr.output_path]
        IN Direct(jr) =>
             /\ Len(sc) <= 2
             /\ (Len(jr.returns) >= 1 /\ jr.returns[1] = "fail" /\ HasFallback(primary)) =>
                  /\ Len(sc) = 2
                  /\ sc[1].target = primary /\ sc[2].target = fb
                  /\ \A k \in 1..2 : /\ sc[k].text = jr.text
                                     /\ sc[k].output_path = jr.output_path
                  /\ jr.pc \in {"await_fallback", "returned"}
                  /\ jr.pc = "await_fallback" => Len(jr.returns) = 1
                  /\ jr.pc = "returned" =>
                       /\ Len(jr.returns) = 2
                       /\ jr.result =
                            CASE jr.returns[2] = "ok" -> ProviderSuccess(fb, request)
                              [] jr.returns[2] = "fail" -> ProviderFailure(fb)
                              [] OTHER -> Failure("generation_failed", 0)

\* C2 witness: primary and fallback both failed, and the job has returned
C2_Witness ==
    \E j \in DOMAIN job :
        /\ job[j].pc = "returned"
        /\ job[j].returns = <<"fail", "fail">>
        /\ job[j].result = ProviderFailure(fallback_providers[job[j].given_config.provider])

\* C3: no exception escapes generate_audio on any path
C3_NoExceptionEscapes ==
    \A j \in DOMAIN job : job[j].pc # "raised"

\* C6: whenever generate_audio returns success, an audio file exists at the
\* caller-supplied destination, which the returned artifact names
C6_SuccessHasFileAtDestination ==
    \A j \in DOMAIN job :
        (job[j].pc = "returned" /\ job[j].result.success) =>
            /\ job[j].result.audio_file.file_path = job[j].output_path
            /\ job[j].output_path \in files

\* C7: a chunk failure is declared only after one fallback synthesize was
\* attempted for that chunk, when a fallback is configured and registered
C7_ChunkFailureAfterFallback ==
    \A j \in DOMAIN job :
        LET jr == job[j]
            sc == SynthCalls(jr)
        IN (jr.pc = "returned" /\ jr.result.error_message # Null
            /\ jr.result.error_message.kind = "chunk_failed"
            /\ HasFallback(jr.provider)) =>
               /\ Len(sc) >= 2
               /\ sc[Len(sc)].target = fallback_providers[jr.provider]
               /\ sc[Len(sc)].text = sc[Len(sc) - 1].text

\* C8: when a chunk's synthesize returns a failure, the job is over at once:
\* the failing chunk is the last one requested, nothing was combined, and
\* the result is a failure without audio_file that names the failing chunk
\* (counted from 1)
C8_ChunkFailureAborts ==
    \A j \in DOMAIN job :
        LET jr == job[j]
            sc == SynthCalls(jr)
            n == Len(jr.returns)
        IN (Chunked(jr) /\ \E k \in 1..n : jr.returns[k] = "fail") =>
             /\ jr.returns[n] = "fail"
             /\ \A k \in 1..(n - 1) : jr.returns[k] = "ok"
             /\ Len(sc) = n
             /\ sc[n].text = jr.chunks[n]
             /\ jr.request = Null
             /\ jr.combined = Null
             /\ jr.pc = "returned"
             /\ jr.result = Failure("chunk_failed", n)
             /\ jr.result.success = FALSE /\ jr.result.audio_file = Null

\* C8 witness: the second of three chunks failed and the job has returned
C8_Witness ==
    \E j \in DOMAIN job :
        /\ job[j].pc = "returned"
        /\ Len(job[j].chunks) >= 3
        /\ job[j].returns = <<"ok", "fail">>
        /\ job[j].result.error_message.chunk = 2

\* C9: the chunks of a job are requested in source order, one at a time
\* (request k+1 only after the result of request k), and the per-chunk
\* artifacts are handed to the combine step in that order
C9_ChunksInOrderOneAtATime ==
    \A j \in DOMAIN job :
        LET jr == job[j]
            sc == SynthCalls(jr)
        IN Chunked(jr) =>
             /\ Len(sc) <= Len(jr.chunks)
             /\ \A k \in 1..Len(sc) :
                    /\ sc[k].text = jr.chunks[k]
                    /\ sc[k].output_path = ChunkPath(jr.output_path, k - 1)
             /\ Len(jr.returns) <= Len(sc) /\ Len(sc) <= Len(jr.returns) + 1
             /\ (jr.request # Null) <=> (Len(sc) = Len(jr.returns) + 1)
             /\ jr.combined # Null =>
                    /\ Len(jr.combined.audio_files) = Len(jr.chunks)
                    /\ \A k \in 1..Len(jr.chunks) :
                           /\ jr.combined.audio_files[k].text_input = jr.chunks[k]
                           /\ jr.combined.audio_files[k].file_path =
                                  ChunkPath(jr.output_path, k - 1)

\* C9 witness: a job of three chunks reached the combine step
C9_Witness ==
    \E j \in DOMAIN job :
        /\ job[j].combined # Null
        /\ Len(job[j].combined.audio_files) >= 3
        /\ job[j].pc = "returned"

\* C10: a call whose voice_config.provider is not registered returns a
\* failure with the "not available" message and calls synthesize and
\* get_limits on no provider
C10_UnregisteredProviderFails ==
    \A j \in DOMAIN job :
        LET jr == job[j]
        IN (jr.pc # "idle" /\ jr.given_config.provider \notin providers) =>
             /\ jr.pc = "returned"
             /\ jr.result = Failure("not_available", 0)
             /\ jr.calls = <<>>
             /\ jr.request = Null
             /\ files = {}

\* C10 witness: the provider named is not registered but its fallback is
C10_Witness ==
    \E j \in DOMAIN job :
        /\ job[j].pc = "returned"
        /\ job[j].given_config.provider \notin providers
        /\ HasFallback(job[j].given_config.provider)
        /\ job[j].result.success = FALSE

\* the provider registered for the job rejects the VoiceConfig the job was
\* given
ConfigError(jr) ==
    /\ jr.provider \in {"google", "openai"}
    /\ ~validate_config(jr.provider, jr.given_config)

\* C11: a job whose voice_config names a voice outside the registered
\* provider's catalog, or a speed, pitch or volume outside the provider's
\* range, never calls synthesize (neither the primary nor a fallback) and
\* ends with a failure result
C11_ConfigErrorBeforeSynthesize ==
    \A j \in DOMAIN job :
        ConfigError(job[j]) =>
            /\ SynthCalls(job[j]) = <<>>
            /\ job[j].pc = "returned" => ~job[j].result.success

\* the job has run _split_text_for_provider(text, limits.max_characters)
\* (line 148, after the second get_limits)
HasSplit(jr) == Chunked(jr) /\ Len(jr.calls) >= 2

\* C12: every chunk _split_text_for_provider returns is at most
\* max_characters long, whatever the text
C12_SplitWithinMaxCharacters ==
    \A j \in DOMAIN job :
        HasSplit(job[j]) =>
            \A i \in 1..Len(job[j].chunks) :
                Len(job[j].chunks[i]) <= get_limits(job[j].provider)

\* C13: the chunks _split_text_for_provider returns, concatenated in order,
\* are exactly the input text
C13_SplitLosesNothing ==
    \A j \in DOMAIN job :
        HasSplit(job[j]) => join(job[j].chunks) = job[j].text

\* the sum of the cost_cents of the synthesis results of the chunks
RECURSIVE ChunkCosts(_, _)
ChunkCosts(p, chunks) ==
    IF chunks = <<>> THEN 0
    ELSE estimate_cost(p, Head(chunks)) + ChunkCosts(p, Tail(chunks))

\* C14: every result generate_audio returns has an integer cost_cents, and
\* the one of a chunked job is the sum of the cost_cents of its chunks'
\* synthesis results
C14_ResultCarriesCost ==
    \A j \in DOMAIN job :
        job[j].pc = "returned" =>
            /\ job[j].result.cost_cents \in Nat
            /\ (HasSplit(job[j]) /\ job[j].result.success) =>
                  job[j].result.cost_cents = ChunkCosts(job[j].provider, job[j].chunks)

\* the second half of C14 alone: a chunked job that succeeds reports the sum
\* of its chunks' costs
ChunkedCostIsSum ==
    \A j \in DOMAIN job :
        (job[j].pc = "returned" /\ HasSplit(job[j]) /\ job[j].result.success) =>
            job[j].result.cost_cents = ChunkCosts(job[j].provider, job[j].chunks)

\* C28: every synthesize request of generate_audio carries a text no
\* longer than the max_characters of the provider it is sent to, the retry
\* on the fallback provider included
C28_RequestsWithinLimits ==
    \A j \in DOMAIN job :
        \A i \in DOMAIN SynthCalls(job[j]) :
            Len(SynthCalls(job[j])[i].text) <= get_limits(SynthCalls(job[j])[i].target)

\* the case C28 names: the text of a retry on the fallback provider (the
\* second synthesize call of a direct job) is within the fallback's limit
FallbackRetryWithinLimit ==
    \A j \in DOMAIN job :
        (Direct(job[j]) /\ Len(SynthCalls(job[j])) = 2) =>
            Len(SynthCalls(job[j])[2].text) <= get_limits(SynthCalls(job[j])[2].target)

\* C29: every request handed to the provider registered under key P
\* carries a voice_config whose provider field is P at the moment of the
\* call, and every call is dispatched first to the provider the caller
\* named when the VoiceConfig was built, whatever other calls were given
\* the same object before or meanwhile
C29_RequestMatchesProvider ==
    \A j \in DOMAIN job :
        LET sc == SynthCalls(job[j])
        IN /\ \A i \in DOMAIN sc : sc[i].config_provider = sc[i].target
           /\ sc # <<>> => sc[1].target = job[j].caller_named

\* the two halves of C29, one at a time
RequestCarriesTargetProvider ==
    \A j \in DOMAIN job :
        \A i \in DOMAIN SynthCalls(job[j]) :
            SynthCalls(job[j])[i].config_provider = SynthCalls(job[j])[i].target
DispatchedToNamedProvider ==
    \A j \in DOMAIN job :
        SynthCalls(job[j]) # <<>> => SynthCalls(job[j])[1].target = job[j].caller_named

(***************************************************************************)
(* Properties of AudioConcatenator.concatenate_chunks                      *)
(***************************************************************************)
\* the call is over: it returned a dict or raised
Over(fr) == fr.pc \in {"returned", "raised"}

\* C15: when a call that took the ffmpeg path is over, however it ended,
\* neither its input list nor the silence file is left in temp_dir
C15_TempFilesDeleted ==
    \A c \in DOMAIN concat :
        (Over(concat[c]) /\ concat[c].input_list_path # NoPath) =>
            /\ ~fs[concat[c].input_list_path].exists
            /\ ~fs[silence_path].exists

\* C16: a call that returns success has left a non-empty file at
\* output_path, whichever of the three methods produced it
C16_SuccessMeansOutput ==
    \A c \in DOMAIN concat :
        (concat[c].pc = "returned" /\ concat[c].result.success) =>
            /\ fs[concat[c].output_path].exists
            /\ fs[concat[c].output_path].data # <<>>

\* C17: a call with no audio files returns a failure dict: it does not
\* raise, and it writes no output file
C17_NoInputIsFailure ==
    \A c \in DOMAIN concat :
        (Over(concat[c]) /\ concat[c].audio_files = <<>>) =>
            /\ concat[c].pc = "returned"
            /\ ~concat[c].result.success
            /\ ~fs[concat[c].output_path].exists

\* the temporary files a call is using: its input list and, once created,
\* its silence file
TempPaths(fr) ==
    IF fr.pc \in {"create_silence_file", "run_ffmpeg"}
    THEN {fr.input_list_path, fr.silence_file} \ {NoPath}
    ELSE {}

\* C18: two calls that are under way at the same time use no temporary
\* path in common
C18_JobUniqueTempPaths ==
    \A c, d \in DOMAIN concat :
        c # d => TempPaths(concat[c]) \cap TempPaths(concat[d]) = {}

\* the call went down the path without ffmpeg on two or more segments,
\* each of them a file that holds audio
Degraded(fr) ==
    /\ fr.pc = "returned"
    /\ fr.ffmpeg = "unavailable"
    /\ Len(fr.audio_files) >= 2
    /\ \A i \in DOMAIN fr.audio_files :
          fs[fr.audio_files[i]].exists /\ fs[fr.audio_files[i]].data # <<>>

\* C25: with two or more segments and no ffmpeg, concatenate_chunks reports
\* success with method 'simple_copy', chunks_processed = 1 and a warning;
\* the output is a copy of the first segment, and the audio of every other
\* segment is absent from it.
C25_DegradedCopiesFirst ==
    \A c \in DOMAIN concat :
        LET fr == concat[c]
            out == fs[fr.output_path]
        IN Degraded(fr) =>
            /\ fr.result.success
            /\ fr.result.method = "simple_copy"
            /\ fr.result.chunks_processed = 1
            /\ fr.result.warning
            /\ out = fs[fr.audio_files[1]]
            /\ \A i \in 2..Len(fr.audio_files) :
                  fr.audio_files[i] # fr.audio_files[1] =>
                      \A k \in DOMAIN fs[fr.audio_files[i]].data :
                          \A o \in DOMAIN out.data :
                              out.data[o] # fs[fr.audio_files[i]].data[k]

\* two different segments were given and the call is over
C25_Witness ==
    \E c \in DOMAIN concat :
        /\ Degraded(concat[c])
        /\ concat[c].audio_files[2] # concat[c].audio_files[1]
        /\ concat[c].result.success

(***************************************************************************)
(* Properties of AudioPipeline.split_into_episodes                         *)
(***************************************************************************)
\* the words of a run of sections
RECURSIVE Words(_)
Words(sections) ==
    IF sections = <<>> THEN 0 ELSE WordCount(Head(sections)) + Words(Tail(sections))

\* the sections of one episode, joined as line 292 joins them
RECURSIVE JoinSections(_)
JoinSections(sections) ==
    IF sections = <<>> THEN <<>>
    ELSE IF Len(sections) = 1 THEN sections[1]
    ELSE sections[1] \o <<"\n", "\n">> \o JoinSections(Tail(sections))

\* the texts of the episodes, in order
EpisodeTextsOut == [i \in 1..Len(ep.episodes) |-> ep.episodes[i].text]

RECURSIVE WordsOf(_)
WordsOf(text) ==
    LET t == lstrip(text)
        n == SetMin({i \in 1..Len(t) : i = Len(t) \/ IsSpace(t[i + 1])})
    IN IF t = <<>> THEN <<>>
       ELSE <<SubSeq(t, 1, n)>> \o WordsOf(From(t, n))

\* the words of a list of texts, text after text
RECURSIVE AllWords(_)
AllWords(texts) ==
    IF texts = <<>> THEN <<>> ELSE WordsOf(Head(texts)) \o AllWords(Tail(texts))

\* the break marker that starts at the head of the text, or <<>>
MarkerAt(text) ==
    IF \E i \in DOMAIN natural_breaks : StartsWith(text, natural_breaks[i])
    THEN natural_breaks[CHOOSE i \in DOMAIN natural_breaks :
                            StartsWith(text, natural_breaks[i])]
    ELSE <<>>

\* the text read from left to right with every break marker taken out, a
\* line break standing where the marker was
RECURSIVE WithoutMarkers(_)
WithoutMarkers(text) ==
    IF text = <<>> THEN <<>>
    ELSE IF MarkerAt(text) # <<>>
         THEN <<"\n">> \o WithoutMarkers(From(text, Len(MarkerAt(text))))
         ELSE <<Head(text)>> \o WithoutMarkers(Tail(text))

NonBlankSections == {k \in 1..Len(ep.sections) : strip(ep.sections[k]) # <<>>}

\* C22: a text whose non-blank sections are separated by break markers
\* (two such sections or more) is split into at least two episodes
C22_SplitsAtNaturalBreaks ==
    (ep.pc = "done" /\ Cardinality(NonBlankSections) >= 2) => Len(ep.episodes) >= 2

(***************************************************************************)
(* Properties of IntelligentTextChunker.chunk_text                         *)
(***************************************************************************)
\* the texts of the chunks chunk_text returned
ChunkTexts == [i \in 1..Len(chunker.text_chunks) |-> chunker.text_chunks[i].text]

\* C4: every chunk chunk_text returns has a text, and a character_count, of
\* at most max_chars, whether a pattern or a forced split cut it
C4_ChunksWithinMaxChars ==
    /\ chunker.pc \in {"splitting", "split"} =>
          \A i \in 1..Len(chunker.chunks) : Len(chunker.chunks[i]) <= chunker.max_chars
    /\ chunker.pc = "done" =>
          \A i \in 1..Len(chunker.text_chunks) :
              /\ Len(chunker.text_chunks[i].text) <= chunker.max_chars
              /\ chunker.text_chunks[i].character_count <= chunker.max_chars

\* C4 witness: a text cut into three chunks or more, the first by a forced
\* split and a later one at a pattern, one of them of exactly max_chars
C4_Witness ==
    /\ chunker.pc = "done"
    /\ Len(chunker.text_chunks) >= 3
    /\ find_optimal_split(chunker.normalized, chunker.max_chars) = -1
    /\ \E i \in 1..Len(chunker.text_chunks) :
          Len(chunker.text_chunks[i].text) = chunker.max_chars
    /\ \E n \in 1..NumBreakPatterns : MatchEnds(n, chunker.normalized) # {}

\* t is the chunks joined in order, up to whitespace before, between and
\* after them
RECURSIVE SeamJoin(_, _)
SeamJoin(list, t) ==
    IF list = <<>> THEN lstrip(t) = <<>>
    ELSE LET u == lstrip(t)
             c == strip(Head(list))
         IN StartsWith(u, c) /\ SeamJoin(Tail(list), From(u, Len(c)))

\* C5: with overlap_chars = 0 the trimmed chunk texts, joined in order, are
\* the normalized input, but for the whitespace stripped where the text was
\* cut: no other character is lost, repeated or moved
C5_RoundTrip ==
    (chunker.pc = "done" /\ chunker.overlap_chars = 0) =>
        SeamJoin(ChunkTexts, chunker.normalized)

\* C5 witness: several chunks, with whitespace stripped at a seam
C5_Witness ==
    /\ chunker.pc = "done"
    /\ chunker.overlap_chars = 0
    /\ Len(chunker.text_chunks) >= 3
    /\ join(ChunkTexts) # chunker.normalized

\* the call is the scenario: a text of ScenarioLen characters chunked with
\* max_chars = ScenarioMaxChars
Scenario ==
    /\ chunker.pc = "done"
    /\ Len(chunker.text) = ScenarioLen
    /\ chunker.max_chars = ScenarioMaxChars

\* C23 as stated: the scenario gives exactly 3 chunks, each of at most
\* max_chars characters, whose trimmed texts concatenated are the
\* normalized text
C23_ScenarioExactlyThree ==
    Scenario =>
        /\ Len(chunker.text_chunks) = 3
        /\ \A i \in 1..Len(ChunkTexts) : Len(ChunkTexts[i]) <= chunker.max_chars
        /\ join([i \in 1..Len(ChunkTexts) |-> strip(ChunkTexts[i])]) = chunker.normalized

\* C23 amended: the scenario gives chunks of at most max_chars characters
\* whose trimmed texts, in order, are the normalized text but for the
\* whitespace removed at the cuts; when the
\* normalized text still has ScenarioLen characters and no whitespace, the
\* chunks are exactly 3 and their texts concatenated are that text
C23_ScenarioChunks ==
    Scenario =>
        /\ \A i \in 1..Len(ChunkTexts) : Len(ChunkTexts[i]) <= chunker.max_chars
        /\ SeamJoin(ChunkTexts, chunker.normalized)
        /\ (/\ Len(chunker.normalized) = ScenarioLen
            /\ \A i \in 1..Len(chunker.normalized) : ~IsSpace(chunker.normalized[i]))
           => /\ Len(ChunkTexts) = 3
              /\ join(ChunkTexts) = chunker.normalized

\* C23 witness: the scenario on a text without whitespace, cut twice at
\* max_chars
C23_Witness ==
    /\ Scenario
    /\ \A i \in 1..Len(chunker.text) : ~IsSpace(chunker.text[i])
    /\ Len(chunker.text_chunks) = 3
    /\ Len(ChunkTexts[1]) = ScenarioMaxChars


(***************************************************************************)
(* Properties of estimate_cost                                             *)
(***************************************************************************)
\* C24: for one provider and one voice tier estimate_cost is at least 1 cent
\* and does not decrease as the text gets longer: of two calls, the one with
\* the shorter (or equally long) text costs at least 1 and at most what the
\* other costs.
C24_CostMonotone ==
    \A i, j \in DOMAIN est.calls :
        est.calls[i].character_count <= est.calls[j].character_count
            => /\ 1 <= est.calls[i].cost
               /\ est.calls[i].cost <= est.calls[j].cost

\* two texts, the longer one costing more, both above the minimum
C24_Witness ==
    /\ Len(est.calls) = 2
    /\ est.calls[1].character_count < est.calls[2].character_count
    /\ 1 < est.calls[1].cost
    /\ est.calls[1].cost < est.calls[2].cost


\* the round of the splitting loop that cut last: its remaining text was
\* longer than max_chars
HasCut == chunker.pc # "off" /\ chunker.split_from # <<>>

\* the 0-based indices 1..max_chars of text that hold whitespace (index 0
\* is never reached by the loop of lines 159-160)
WhiteSpaceAt(text, max_chars) ==
    {i \in 1..max_chars : text[i + 1] \in {" ", "\n", "\t"}}

C26_WitnessBackOff ==
    /\ HasCut
    /\ \A n \in 1..NumBreakPatterns :
          MatchEnds(n, UpTo(chunker.split_from, chunker.max_chars)) = {}
    /\ chunker.split_point < chunker.max_chars


\* a round of the splitting loop is about to run; it cuts when the
\* remaining text is longer than max_chars, and ends the loop otherwise
InLoop == chunker.pc = "splitting"
RoundCuts == InLoop /\ Len(chunker.remaining_text) > chunker.max_chars

\* C27: every round of the splitting loop appends a non-empty chunk, and a
\* round that cuts leaves a remaining text shorter by at least one
\* character, so that chunk_text terminates.
C27_EachRoundProgresses ==
    [][(InLoop => chunker'.chunks[Len(chunker'.chunks)] # <<>>)
       /\ (RoundCuts =>
              Len(chunker'.remaining_text) < Len(chunker.remaining_text))]_vars

\* the part of C27 that termination rests on: a round that cuts removes at
\* least one character from the remaining text
RoundRemovesCharacter ==
    [][RoundCuts =>
         Len(chunker'.remaining_text) < Len(chunker.remaining_text)]_vars


(***************************************************************************)
(* Properties of OpenAITTSProvider.synthesize_long_text                    *)
(***************************************************************************)
\* the call has returned on the chunked path
ChunkedReturn == lt.pc = "returned" /\ lt.chunked

\* C30: when synthesize_long_text returns on the chunked path, whatever the
\* outcome, none of the per-chunk audio files it created is left on disk,
\* and after a chunk failure no concatenation has been attempted
C30_NoChunkFileLeft ==
    ChunkedReturn =>
        /\ \A p \in lt.created : ~fs[p].exists
        /\ lt.result.error = "Chunk failed" => (~lt.concatenated /\ concat[1].pc = "idle")

\* what the cleanup does guarantee: the files of chunk_files, those of the
\* chunks whose synthesize succeeded, are deleted on every return, and a
\* chunk failure returns without concatenating
SucceededChunkFilesDeleted ==
    ChunkedReturn =>
        /\ \A k \in DOMAIN lt.chunk_files : ~fs[lt.chunk_files[k]].exists
        /\ lt.result.error = "Chunk failed" => (~lt.concatenated /\ concat[1].pc = "idle")

====
